---- MODULE Spec2Model ----
(***************************************************************************)
(* Model of the streaming decoder of `Event` messages                      *)
(* (src/src/message/event.rs, EventVisitor::visit_map).                    *)
(*                                                                         *)
(* One behaviour is one call of visit_map on one JSON object.  The object  *)
(* has a.len key/value pairs; the pairs themselves are inputs, drawn pair  *)
(* by pair from small sets as the MapAccess hands them out.                *)
(***************************************************************************)
EXTENDS Integers, Sequences, FiniteSets, TLC

\* Largest number of key/value pairs of one object.
MaxLen == 6

----------------------------------------------------------------------------
\* Option<T> and Result<T, E>

None == <<>>
Some(x) == <<x>>
Ok(v) == [ok |-> TRUE, v |-> v]
Err(e) == [ok |-> FALSE, v |-> e]

----------------------------------------------------------------------------
\* The tag table generated by impl_event! from the EventKind declaration.

\* Mutant: the last container variant of the declaration is missing.
c_tag_NoQuotedTweet ==
    [ favorite               |-> [variant |-> "Favorite",             Content |-> "Tweet"],
      unfavorite             |-> [variant |-> "Unfavorite",           Content |-> "Tweet"],
      list_created           |-> [variant |-> "ListCreated",          Content |-> "List"],
      list_destroyed         |-> [variant |-> "ListDestroyed",        Content |-> "List"],
      list_updated           |-> [variant |-> "ListUpdated",          Content |-> "List"],
      list_member_added      |-> [variant |-> "ListMemberAdded",      Content |-> "List"],
      list_member_removed    |-> [variant |-> "ListMemberRemoved",    Content |-> "List"],
      list_user_subscribed   |-> [variant |-> "ListUserSubscribed",   Content |-> "List"],
      list_user_unsubscribed |-> [variant |-> "ListUserUnsubscribed", Content |-> "List"] ]

\* $Container($c_tag, $Content): tag |-> variant and payload type
c_tag ==
    [ favorite               |-> [variant |-> "Favorite",             Content |-> "Tweet"],
      unfavorite             |-> [variant |-> "Unfavorite",           Content |-> "Tweet"],
      list_created           |-> [variant |-> "ListCreated",          Content |-> "List"],
      list_destroyed         |-> [variant |-> "ListDestroyed",        Content |-> "List"],
      list_updated           |-> [variant |-> "ListUpdated",          Content |-> "List"],
      list_member_added      |-> [variant |-> "ListMemberAdded",      Content |-> "List"],
      list_member_removed    |-> [variant |-> "ListMemberRemoved",    Content |-> "List"],
      list_user_subscribed   |-> [variant |-> "ListUserSubscribed",   Content |-> "List"],
      list_user_unsubscribed |-> [variant |-> "ListUserUnsubscribed", Content |-> "List"],
      quoted_tweet           |-> [variant |-> "QuotedTweet",          Content |-> "Tweet"] ]

\* $Label($l_tag): tag |-> variant
l_tag ==
    [ access_revoked |-> "AccessRevoked",
      block          |-> "Block",
      unblock        |-> "Unblock",
      follow         |-> "Follow",
      unfollow       |-> "Unfollow",
      user_update    |-> "UserUpdate" ]

IsContainerTag(e) == e \in DOMAIN c_tag
IsLabelTag(e) == e \in DOMAIN l_tag

\* Values of EventKind.  Every variant is a record with the same fields so
\* that any two of them can be compared.
Container(e, c) == [variant |-> c_tag[e].variant, name |-> None, content |-> Some(c)]
Label(e) == [variant |-> l_tag[e], name |-> None, content |-> None]
Custom(e, v) == [variant |-> "Custom", name |-> Some(e), content |-> v]

----------------------------------------------------------------------------
\* Inputs: the values the object's pairs may carry.

\* JSON values, told apart by the shape of the object and an id.
JsonValues ==
    { [shape |-> "User",  id |-> 1],
      [shape |-> "User",  id |-> 2],
      [shape |-> "Tweet", id |-> 1],
      [shape |-> "List",  id |-> 1],
      [shape |-> "Other", id |-> 0] }

\* Discriminators: two container tags with different payload types, two
\* label tags, one string the table does not know.
EventNames == {"favorite", "list_created", "follow", "block", "something_new"}

\* Strings under "created_at": two in the timestamp format, one not.
Instants ==
    ("Mon Jul 16 12:59:01 +0000 2007" :> 1184590741) @@
    ("Tue Jul 17 12:59:01 +0000 2007" :> 1184677141)
CreatedAtValues == DOMAIN Instants \cup {"2007-07-16"}

----------------------------------------------------------------------------
\* External collaborators.

\* util::parse_datetime
parse_datetime(val) ==
    IF val \in DOMAIN Instants THEN Ok(Instants[val]) ELSE Err(<<"date", val>>)

\* <$Content>::deserialize / next_value::<$Content>: a value decodes as a
\* payload type iff it has that type's shape.
DeserializeContent(Content, t) ==
    IF t.shape = Content THEN Ok([type |-> Content, id |-> t.id])
    ELSE Err(<<"invalid", Content>>)

\* User::deserialize (derived)
DeserializeUser(v) ==
    IF v.shape = "User" THEN Ok([type |-> "User", id |-> v.id])
    ELSE Err(<<"invalid", "User">>)

\* serde errors: kind and what the message carries
ErrCustom(msg) == [kind |-> "custom", msg |-> msg]
ErrStream(msg) == [kind |-> "stream", msg |-> msg]
ErrMissingField(field) == [kind |-> "missing_field", msg |-> <<field>>]

----------------------------------------------------------------------------
VARIABLES
    a,            \* the MapAccess: len pairs in the object, pos of them consumed
    event,        \* the EventBuffer
    event_kind,   \* pending discriminator
    target_obj,   \* pending payload
    pc,           \* "loop" | "drain" | "done"
    result,       \* None while running, then Some(Ok(Event)) or Some(Err(e))
    \* history of the call, kept for stating properties
    nEvent,       \* "event" keys processed by the key loop (0, 1, 2 = more)
    nTO,          \* "target_object" keys processed by the key loop
    lastEvent,    \* discriminator of the last "event" key processed
    lastTO,       \* value of the last "target_object" key processed
    first,        \* which of "event"/"target_object" was processed first
    seenEvents,   \* discriminators of all "event" keys processed
    firstCreatedAt, \* value of the first "created_at" key processed
    lastCreatedAt,\* value of the last "created_at" key processed
    lastTarget,   \* value of the last "target" key processed
    lastSource,   \* value of the last "source" key processed
    completed,    \* the buffer at the moment all four slots were filled
    drained       \* names of the keys consumed by the drain loop

locals == <<event, event_kind, target_obj>>
hist == <<nEvent, nTO, lastEvent, lastTO, first, seenEvents,
          firstCreatedAt, lastCreatedAt, lastTarget, lastSource, completed, drained>>
vars == <<a, event, event_kind, target_obj, pc, result,
          nEvent, nTO, lastEvent, lastTO, first, seenEvents,
          firstCreatedAt, lastCreatedAt, lastTarget, lastSource, completed, drained>>

EventBufferDefault ==
    [created_at |-> None, event |-> None, target |-> None, source |-> None]

Locals == [event |-> event, event_kind |-> event_kind, target_obj |-> target_obj]

Init ==
    /\ a \in [len : 0..MaxLen, pos : {0}]
    /\ event = EventBufferDefault
    /\ event_kind = None
    /\ target_obj = None
    /\ pc = "loop"
    /\ result = None
    /\ nEvent = 0
    /\ nTO = 0
    /\ lastEvent = None
    /\ lastTO = None
    /\ first = None
    /\ seenEvents = {}
    /\ firstCreatedAt = None
    /\ lastCreatedAt = None
    /\ lastTarget = None
    /\ lastSource = None
    /\ completed = None
    /\ drained = {}

----------------------------------------------------------------------------
\* The arms of `match &*k`.  Each takes the locals s and the value under the
\* key and gives Ok(the locals after the arm) or Err(the error returned by ?).

\* Mutant: a created_at slot that is already filled is not overwritten.
ArmCreatedAt_FirstWins(s, val) ==
    LET dt == parse_datetime(val) IN
    IF ~dt.ok THEN Err(ErrCustom(dt.v))
    ELSE IF s.event.created_at # None THEN Ok(s)
    ELSE Ok([s EXCEPT !.event.created_at = Some(dt.v)])

\* Mutant: a created_at that does not parse is skipped.
ArmCreatedAt_SkipsBadDate(s, val) ==
    LET dt == parse_datetime(val) IN
    IF dt.ok THEN Ok([s EXCEPT !.event.created_at = Some(dt.v)])
    ELSE Ok(s)

\* "created_at" =>
ArmCreatedAt(s, val) ==
    LET dt == parse_datetime(val) IN
    IF dt.ok THEN Ok([s EXCEPT !.event.created_at = Some(dt.v)])
    ELSE Err(ErrCustom(dt.v))

\* Mutant: the container arms are missing, a container tag falls to `_ =>`.
ArmEventTaken_NoContainer(s, e) ==
    LET t == s.target_obj[1]
        s1 == [s EXCEPT !.target_obj = None]
    IN  IF IsLabelTag(e) THEN
            Ok([s1 EXCEPT !.event.event = Some(Label(e))])
        ELSE
            Ok([s1 EXCEPT !.event.event = Some(Custom(e, Some(t)))])

\* "event" => with a payload pending: target_obj.take() is Some(t)
ArmEventTaken(s, e) ==
    LET t == s.target_obj[1]
        s1 == [s EXCEPT !.target_obj = None]
    IN  IF IsContainerTag(e) THEN
            LET c == DeserializeContent(c_tag[e].Content, t) IN
            IF c.ok THEN Ok([s1 EXCEPT !.event.event = Some(Container(e, c.v))])
            ELSE Err(ErrCustom(c.v))
        ELSE IF IsLabelTag(e) THEN
            Ok([s1 EXCEPT !.event.event = Some(Label(e))])
        ELSE
            Ok([s1 EXCEPT !.event.event = Some(Custom(e, Some(t)))])

\* Mutant: an unknown discriminator is kept pending like a container tag.
ArmEventAlone_AllPending(s, e) ==
    IF IsLabelTag(e) THEN
        Ok([s EXCEPT !.event.event = Some(Label(e))])
    ELSE
        Ok([s EXCEPT !.event_kind = Some(e), !.event.event = None])

\* "event" => with no payload pending
ArmEventAlone(s, e) ==
    IF IsContainerTag(e) THEN
        Ok([s EXCEPT !.event_kind = Some(e), !.event.event = None])
    ELSE IF IsLabelTag(e) THEN
        Ok([s EXCEPT !.event.event = Some(Label(e))])
    ELSE
        Ok([s EXCEPT !.event.event = Some(Custom(e, None))])

\* "event" =>
ArmEvent(s, e) ==
    IF s.target_obj # None THEN ArmEventTaken(s, e) ELSE ArmEventAlone(s, e)

\* "target" =>
ArmTarget(s, v) ==
    LET u == DeserializeUser(v) IN
    IF u.ok THEN Ok([s EXCEPT !.event.target = Some(u.v)])
    ELSE Err(ErrStream(u.v))

\* "source" =>
ArmSource(s, v) ==
    LET u == DeserializeUser(v) IN
    IF u.ok THEN Ok([s EXCEPT !.event.source = Some(u.v)])
    ELSE Err(ErrStream(u.v))

\* Mutant: the pending discriminator is read but not taken.
ArmTargetObjectTaken_NoTake(s, v) ==
    LET e == s.event_kind[1]
    IN  IF IsContainerTag(e) THEN
            LET c == DeserializeContent(c_tag[e].Content, v) IN
            IF c.ok THEN Ok([s EXCEPT !.event.event = Some(Container(e, c.v))])
            ELSE Err(ErrStream(c.v))
        ELSE IF IsLabelTag(e) THEN
            Ok([s EXCEPT !.event.event = Some(Label(e))])
        ELSE
            Ok([s EXCEPT !.event.event = Some(Custom(e, Some(v)))])

\* Mutant: every container payload is decoded as a Tweet.
ArmTargetObjectTaken_AlwaysTweet(s, v) ==
    LET e == s.event_kind[1]
        s1 == [s EXCEPT !.event_kind = None]
    IN  IF IsContainerTag(e) THEN
            LET c == DeserializeContent("Tweet", v) IN
            IF c.ok THEN Ok([s1 EXCEPT !.event.event = Some(Container(e, c.v))])
            ELSE Err(ErrStream(c.v))
        ELSE IF IsLabelTag(e) THEN
            Ok([s1 EXCEPT !.event.event = Some(Label(e))])
        ELSE
            Ok([s1 EXCEPT !.event.event = Some(Custom(e, Some(v)))])

\* Mutant: a payload that does not decode is kept as a raw value.
ArmTargetObjectTaken_Lenient(s, v) ==
    LET e == s.event_kind[1]
        s1 == [s EXCEPT !.event_kind = None]
    IN  IF IsContainerTag(e) /\ DeserializeContent(c_tag[e].Content, v).ok THEN
            Ok([s1 EXCEPT !.event.event =
                    Some(Container(e, DeserializeContent(c_tag[e].Content, v).v))])
        ELSE IF IsLabelTag(e) THEN
            Ok([s1 EXCEPT !.event.event = Some(Label(e))])
        ELSE
            Ok([s1 EXCEPT !.event.event = Some(Custom(e, Some(v)))])

\* "target_object" => with a discriminator pending: event_kind.take() is Some(e)
ArmTargetObjectTaken(s, v) ==
    LET e == s.event_kind[1]
        s1 == [s EXCEPT !.event_kind = None]
    IN  IF IsContainerTag(e) THEN
            LET c == DeserializeContent(c_tag[e].Content, v) IN
            IF c.ok THEN Ok([s1 EXCEPT !.event.event = Some(Container(e, c.v))])
            ELSE Err(ErrStream(c.v))
        ELSE IF IsLabelTag(e) THEN
            Ok([s1 EXCEPT !.event.event = Some(Label(e))])
        ELSE
            Ok([s1 EXCEPT !.event.event = Some(Custom(e, Some(v)))])

\* Mutant: the value is stored whenever no discriminator is pending.
ArmTargetObject_StashAlways(s, v) ==
    IF s.event_kind # None THEN ArmTargetObjectTaken(s, v)
    ELSE Ok([s EXCEPT !.target_obj = Some(v)])

\* Mutant: a value arriving after a resolved event is decoded, not ignored.
ArmTargetObject_DecodesExtra(s, v) ==
    IF s.event_kind # None THEN ArmTargetObjectTaken(s, v)
    ELSE IF s.event.event = None THEN Ok([s EXCEPT !.target_obj = Some(v)])
    ELSE LET c == DeserializeContent("Tweet", v) IN
         IF c.ok THEN Ok(s) ELSE Err(ErrStream(c.v))

\* "target_object" =>
ArmTargetObject(s, v) ==
    IF s.event_kind # None THEN ArmTargetObjectTaken(s, v)
    ELSE IF s.event.event = None THEN Ok([s EXCEPT !.target_obj = Some(v)])
    ELSE Ok(s)

\* Mutant: an unknown key drops the pending payload.
ArmOther_DropsPending(s) == Ok([s EXCEPT !.target_obj = None])

\* _ => { a.next_value::<IgnoredAny>()?; }
ArmOther(s) == Ok(s)

\* Mutant: the completion test also asks the event to carry a payload.
IsComplete_NeedsPayload(buf) ==
    /\ buf.created_at # None
    /\ buf.event # None
    /\ buf.event[1].content # None
    /\ buf.target # None
    /\ buf.source # None

\* Mutant: the completion test forgets the source slot.
IsComplete_IgnoringSource(buf) ==
    /\ buf.created_at # None
    /\ buf.event # None
    /\ buf.target # None

\* if let EventBuffer { created_at: Some(..), event: Some(..), target: Some(..),
\*                      source: Some(..) } = event
IsComplete(buf) ==
    /\ buf.created_at # None
    /\ buf.event # None
    /\ buf.target # None
    /\ buf.source # None

\* Event { created_at, event, target, source }
EventRecord(buf) ==
    [created_at |-> buf.created_at[1], event |-> buf.event[1],
     target |-> buf.target[1], source |-> buf.source[1]]

\* Mutant: the two names of the `event: None` arm are exchanged.
MissingField_Swapped(buf, to) ==
    IF buf.created_at = None THEN "created_at"
    ELSE IF buf.target = None THEN "target"
    ELSE IF buf.source = None THEN "source"
    ELSE IF buf.event = None THEN (IF to # None THEN "target_object" ELSE "event")
    ELSE "unreachable"

\* Mutant: the target arm comes before the created_at arm.
MissingField_TargetFirst(buf, to) ==
    IF buf.target = None THEN "target"
    ELSE IF buf.created_at = None THEN "created_at"
    ELSE IF buf.source = None THEN "source"
    ELSE IF buf.event = None THEN (IF to # None THEN "event" ELSE "target_object")
    ELSE "unreachable"

\* the match that picks the name for A::Error::missing_field
MissingField(buf, to) ==
    IF buf.created_at = None THEN "created_at"
    ELSE IF buf.target = None THEN "target"
    ELSE IF buf.source = None THEN "source"
    ELSE IF buf.event = None THEN (IF to # None THEN "event" ELSE "target_object")
    ELSE "unreachable"

----------------------------------------------------------------------------
\* One turn of `while let Some(k) = a.next_key()?`: the pair is consumed, the
\* arm r is applied, and the completion test follows.
LoopBody(r) ==
    /\ pc = "loop"
    /\ a.pos < a.len
    /\ a' = [a EXCEPT !.pos = @ + 1]
    /\ IF r.ok
       THEN /\ event' = r.v.event
            /\ event_kind' = r.v.event_kind
            /\ target_obj' = r.v.target_obj
            /\ result' = result
            /\ IF IsComplete(r.v.event)
               THEN pc' = "drain" /\ completed' = Some(r.v.event)
               ELSE pc' = "loop" /\ completed' = completed
       ELSE /\ pc' = "done"
            /\ result' = Some(Err(r.v))
            /\ UNCHANGED <<locals, completed>>
    /\ drained' = drained

Count(n) == IF n < 2 THEN n + 1 ELSE n

VisitCreatedAt ==
    \E val \in CreatedAtValues :
        /\ LoopBody(ArmCreatedAt(Locals, val))
        /\ firstCreatedAt' = IF firstCreatedAt = None THEN Some(val) ELSE firstCreatedAt
        /\ lastCreatedAt' = Some(val)
        /\ UNCHANGED <<nEvent, nTO, lastEvent, lastTO, first, seenEvents,
                       lastTarget, lastSource>>

VisitEventNamed(e) ==
    /\ LoopBody(ArmEvent(Locals, e))
    /\ nEvent' = Count(nEvent)
    /\ lastEvent' = Some(e)
    /\ first' = IF first = None THEN Some("event") ELSE first
    /\ seenEvents' = seenEvents \cup {e}
    /\ UNCHANGED <<nTO, lastTO, firstCreatedAt, lastCreatedAt, lastTarget, lastSource>>

VisitEvent == \E e \in EventNames : VisitEventNamed(e)

VisitTarget ==
    \E v \in JsonValues :
        /\ LoopBody(ArmTarget(Locals, v))
        /\ lastTarget' = Some(v)
        /\ UNCHANGED <<nEvent, nTO, lastEvent, lastTO, first, seenEvents,
                       firstCreatedAt, lastCreatedAt, lastSource>>

VisitSource ==
    \E v \in JsonValues :
        /\ LoopBody(ArmSource(Locals, v))
        /\ lastSource' = Some(v)
        /\ UNCHANGED <<nEvent, nTO, lastEvent, lastTO, first, seenEvents,
                       firstCreatedAt, lastCreatedAt, lastTarget>>

VisitTargetObject ==
    \E v \in JsonValues :
        /\ LoopBody(ArmTargetObject(Locals, v))
        /\ nTO' = Count(nTO)
        /\ lastTO' = Some(v)
        /\ first' = IF first = None THEN Some("target_object") ELSE first
        /\ UNCHANGED <<nEvent, lastEvent, seenEvents, firstCreatedAt, lastCreatedAt, lastTarget, lastSource>>

VisitOther ==
    /\ LoopBody(ArmOther(Locals))
    /\ UNCHANGED <<nEvent, nTO, lastEvent, lastTO, first, seenEvents,
                   firstCreatedAt, lastCreatedAt, lastTarget, lastSource>>

\* next_key() gives None: Err(A::Error::missing_field(..))
KeysExhausted ==
    /\ pc = "loop"
    /\ a.pos = a.len
    /\ pc' = "done"
    /\ result' = Some(Err(ErrMissingField(MissingField(event, target_obj))))
    /\ UNCHANGED <<a, locals, hist>>

KeyNames == {"created_at", "event", "target", "source", "target_object", "id"}

\* Mutant: the drain loop still interprets an `event` key.
DrainEntry_Interpreting ==
    /\ pc = "drain"
    /\ a.pos < a.len
    /\ a' = [a EXCEPT !.pos = @ + 1]
    /\ \E k \in KeyNames :
        /\ drained' = drained \cup {k}
        /\ IF k = "event"
           THEN \E e \in EventNames :
                    event' = [event EXCEPT !.event =
                                 IF IsLabelTag(e) THEN Some(Label(e)) ELSE Some(Custom(e, None))]
           ELSE event' = event
    /\ UNCHANGED <<event_kind, target_obj, pc, result,
                   nEvent, nTO, lastEvent, lastTO, first, seenEvents,
                   firstCreatedAt, lastCreatedAt, lastTarget, lastSource, completed>>

\* while a.next_entry::<IgnoredAny, IgnoredAny>()?.is_some() {}
DrainEntry ==
    /\ pc = "drain"
    /\ a.pos < a.len
    /\ a' = [a EXCEPT !.pos = @ + 1]
    /\ \E k \in KeyNames : drained' = drained \cup {k}
    /\ UNCHANGED <<locals, pc, result, nEvent, nTO, lastEvent, lastTO, first,
                   seenEvents, firstCreatedAt, lastCreatedAt, lastTarget, lastSource, completed>>

\* Mutant: the record is returned without draining the object.
ReturnOk_NoDrain ==
    /\ pc = "drain"
    /\ pc' = "done"
    /\ result' = Some(Ok(EventRecord(event)))
    /\ UNCHANGED <<a, locals, hist>>

\* return Ok(Event { created_at, event, target, source })
ReturnOk ==
    /\ pc = "drain"
    /\ a.pos = a.len
    /\ pc' = "done"
    /\ result' = Some(Ok(EventRecord(event)))
    /\ UNCHANGED <<a, locals, hist>>

Next ==
    \/ VisitCreatedAt
    \/ VisitEvent
    \/ VisitTarget
    \/ VisitSource
    \/ VisitTargetObject
    \/ VisitOther
    \/ KeysExhausted
    \/ DrainEntry
    \/ ReturnOk

Spec == Init /\ [][Next]_vars

\* The call is synchronous: the loops run on until the function returns.
FairSpec == Spec /\ WF_vars(Next)

----------------------------------------------------------------------------
\* The dispatch on the discriminator alone: objects of at most TagLen pairs
\* made of `event` and `target_object` keys, the discriminator drawn from the
\* whole tag table and two strings outside it.

TagLen == 2

TagNames == DOMAIN c_tag \cup DOMAIN l_tag \cup {"something_new", "retweet"}

VisitAnyEvent == \E e \in TagNames : VisitEventNamed(e)

InitTags == Init /\ a.len <= TagLen

NextTags ==
    \/ VisitAnyEvent
    \/ VisitTargetObject
    \/ KeysExhausted

SpecTags == InitTags /\ [][NextTags]_vars

TypeOK ==
    /\ a.pos \in 0..a.len
    /\ pc \in {"loop", "drain", "done"}
    /\ (pc = "done") = (result # None)

----------------------------------------------------------------------------
\* Vocabulary of the properties.

Returned == pc = "done" /\ result # None /\ result[1].ok
Failed == pc = "done" /\ result # None /\ ~result[1].ok
CustomNames == {S \in EventNames : ~IsContainerTag(S) /\ ~IsLabelTag(S)}
Decodes(T, P) == P.shape = c_tag[T].Content
\* the three slots other than the event slot are filled
OthersFilled == event.created_at # None /\ event.target # None /\ event.source # None
\* the error of a value that did not decode as a payload type
IsPayloadError(e) ==
    /\ e.kind \in {"custom", "stream"}
    /\ e.msg[1] = "invalid"
    /\ e.msg[2] \in {c_tag[T].Content : T \in DOMAIN c_tag}
\* the error is a missing-field error
IsMissingField(e) == e.kind = "missing_field"
Carries(e, str) == \E i \in 1..Len(e.msg) : e.msg[i] = str

----------------------------------------------------------------------------
\* C1  Order independence: when the key loop has processed exactly one
\* `event` key with a container tag T and exactly one `target_object` key
\* whose value P decodes as T's payload type, in whichever order, the event
\* slot (and the event of a returned record) is the container variant of T
\* carrying P.
C1_OrderIndependence ==
    \A T \in DOMAIN c_tag :
        (nEvent = 1 /\ nTO = 1 /\ lastEvent = Some(T) /\ Decodes(T, lastTO[1]))
        => LET expected == [variant |-> c_tag[T].variant, name |-> None,
                            content |-> Some([type |-> c_tag[T].Content,
                                              id |-> lastTO[1].id])]
           IN  /\ event.event = Some(expected)
               /\ first \in {Some("event"), Some("target_object")}
               /\ Returned => result[1].v.event = expected

C1_Witness ==
    /\ Returned
    /\ nEvent = 1 /\ nTO = 1
    /\ first = Some("target_object")
    /\ lastEvent = Some("favorite")
    /\ result[1].v.event.variant = "Favorite"

\* C2  Unknown tag with payload: when the key loop has processed exactly one
\* `event` key with an unknown discriminator S and exactly one
\* `target_object` key with value V, in whichever order, the event slot is
\* the custom variant carrying (S, V).
C2_UnknownTagWithPayload ==
    \A S \in CustomNames :
        (nEvent = 1 /\ nTO = 1 /\ lastEvent = Some(S))
        => event.event = Some(Custom(S, lastTO))

\* C3  An object that supplies created_at, target and source, has neither an
\* `event` nor a `target_object` key and whose values all decode, fails with
\* the missing-field error naming `event`.
C3_NoEventNamesEvent ==
    (Failed /\ nEvent = 0 /\ nTO = 0 /\ OthersFilled /\ IsMissingField(result[1].v))
    => result[1].v.msg = <<"event">>

\* C4  Missing-field priority: a missing-field error names created_at if that
\* slot is empty; otherwise target if that slot is empty; otherwise source if
\* that slot is empty; and event or target_object only when all three are
\* filled.
C4_MissingFieldPriority ==
    (Failed /\ IsMissingField(result[1].v))
    => LET f == result[1].v.msg[1] IN
       /\ event.created_at = None => f = "created_at"
       /\ (event.created_at # None /\ event.target = None) => f = "target"
       /\ (event.created_at # None /\ event.target # None /\ event.source = None)
            => f = "source"
       /\ OthersFilled => f \in {"event", "target_object"}

C4_Witness ==
    /\ Failed
    /\ event.created_at = None /\ event.target = None /\ event.source # None
    /\ event.event # None
    /\ result[1].v.msg = <<"created_at">>

\* C5  Early-completion truncation: from the moment all four slots are
\* filled the buffer no longer changes, whatever keys follow, and the record
\* returned is made of the buffer contents at that moment.
C5_EarlyCompletionTruncation ==
    completed # None
    => /\ event = completed[1]
       /\ pc = "done" => result = Some(Ok([created_at |-> completed[1].created_at[1],
                                           event      |-> completed[1].event[1],
                                           target     |-> completed[1].target[1],
                                           source     |-> completed[1].source[1]]))

\* created_at, event:"follow", target, source, target_object:{...}
C5_Witness ==
    /\ Returned
    /\ nEvent = 1 /\ lastEvent = Some("follow") /\ nTO = 0
    /\ drained = {"target_object"}
    /\ result[1].v.event = Label("follow")

\* C6  Label tags ignore payload: when the only `event` key processed has a
\* label tag L and a `target_object` key was processed, before or after it
\* and whatever its value, the event slot is the label variant of L and the
\* call has not failed with a payload error.
C6_LabelIgnoresPayload ==
    \A L \in DOMAIN l_tag :
        (nEvent = 1 /\ nTO >= 1 /\ lastEvent = Some(L))
        => /\ event.event = Some([variant |-> l_tag[L], name |-> None, content |-> None])
           /\ Failed => ~IsPayloadError(result[1].v)
           /\ Returned => result[1].v.event.variant = l_tag[L]

C6_Witness ==
    /\ Returned
    /\ nEvent = 1 /\ nTO = 1
    /\ first = Some("target_object")
    /\ lastTO = Some([shape |-> "Other", id |-> 0])
    /\ lastEvent = Some("block")
    /\ result[1].v.event = Label("block")

C8_UnknownTagWithoutPayload ==
    \A S \in CustomNames :
        (nEvent = 1 /\ nTO = 0 /\ lastEvent = Some(S) /\ "target_object" \notin drained)
        => /\ event.event = Some(Custom(S, None))
           /\ OthersFilled => pc \in {"drain", "done"}
           /\ (pc = "done" /\ OthersFilled) => Returned
           /\ Returned => result[1].v.event = [variant |-> "Custom", name |-> Some(S),
                                               content |-> None]
           /\ Failed => /\ ~IsPayloadError(result[1].v)
                        /\ ~Carries(result[1].v, "event")
                        /\ ~Carries(result[1].v, "target_object")

C8_Witness ==
    /\ Returned
    /\ nEvent = 1 /\ nTO = 0 /\ "target_object" \notin drained
    /\ lastEvent = Some("something_new")
    /\ result[1].v.event = Custom("something_new", None)

\* C9  Exactly one outcome: the call returns a record if and only if after
\* some key all four slots were filled, the record has the four values of the
\* buffer, and a call whose keys ran out first fails with a missing-field
\* error.
C9_ExactlyOneOutcome ==
    LET AllFour == event.created_at # None /\ event.event # None
                   /\ event.target # None /\ event.source # None
    IN  /\ pc = "loop" => ~AllFour /\ completed = None
        /\ pc = "drain" => AllFour /\ completed # None /\ result = None
        /\ Returned => /\ AllFour /\ completed # None
                       /\ Some(result[1].v.created_at) = event.created_at
                       /\ Some(result[1].v.event) = event.event
                       /\ Some(result[1].v.target) = event.target
                       /\ Some(result[1].v.source) = event.source
        /\ Failed => /\ ~AllFour /\ completed = None
                     /\ result[1].v.kind \in {"missing_field", "custom", "stream"}
                     /\ IsMissingField(result[1].v) =>
                            /\ a.pos = a.len
                            /\ result[1].v.msg[1] \in
                                 {"created_at", "target", "source", "event", "target_object"}
        /\ pc = "done" => (Returned \/ Failed) /\ ~(Returned /\ Failed)

C9_Witness ==
    /\ Failed
    /\ IsMissingField(result[1].v)
    /\ event.created_at # None /\ event.event # None /\ event.target # None
    /\ event.source = None
    /\ a.len > 0

\* C10  Drain before return: when the call returns a record, every pair of
\* the object has been consumed, those after the point of completion
\* included.
C10_DrainBeforeReturn ==
    Returned => a.pos = a.len

C10_Witness ==
    /\ Returned
    /\ a.pos = a.len
    /\ drained # {}

\* C11  Event vs target_object missing: when the keys run out with
\* created_at, target and source filled and the event slot empty, the
\* missing-field error names `event` if a `target_object` key was processed
\* at any time during the call and `target_object` if none was.
C11_SeenPayloadDecides ==
    (Failed /\ IsMissingField(result[1].v) /\ OthersFilled)
    => /\ event.event = None
       /\ result[1].v.msg = <<IF nTO > 0 THEN "event" ELSE "target_object">>

\* C11 (amended)  ... the error names `event` if a `target_object` value is
\* still pending (stored and not yet taken by an `event` key) when the keys
\* run out, and `target_object` otherwise, in particular when no
\* `target_object` key was processed at all.
C11_PendingPayloadDecides ==
    (Failed /\ IsMissingField(result[1].v) /\ OthersFilled)
    => /\ event.event = None
       /\ result[1].v.msg = <<IF target_obj # None THEN "event" ELSE "target_object">>
       /\ nTO = 0 => result[1].v.msg = <<"target_object">>
       /\ target_obj # None => nTO > 0 /\ target_obj = lastTO

\* target_object, event (container, resolved), event (container): the payload
\* was seen and taken, the second discriminator waits for one
C11_Witness ==
    /\ Failed /\ OthersFilled
    /\ nTO = 1 /\ nEvent = 2 /\ first = Some("target_object")
    /\ event_kind # None /\ target_obj = None
    /\ result[1].v = [kind |-> "missing_field", msg |-> <<"target_object">>]

\* C12  Tag/shape consistency: a container variant in the event slot or in a
\* returned record belongs to a container tag T of an `event` key that was
\* processed and carries a payload of T's payload type taken from a
\* `target_object` key; a label variant belongs to a label tag of an `event`
\* key that was processed; a custom variant carries a processed discriminator
\* that is neither a container tag nor a label tag.
C12_ShapeOK(k) ==
    \/ \E T \in DOMAIN c_tag \cap seenEvents :
          /\ k.variant = c_tag[T].variant
          /\ k.name = None
          /\ k.content # None
          /\ k.content[1].type = c_tag[T].Content
          /\ nTO > 0
    \/ \E L \in DOMAIN l_tag \cap seenEvents :
          /\ k.variant = l_tag[L]
          /\ k.name = None
          /\ k.content = None
    \/ /\ k.variant = "Custom"
       /\ k.name # None
       /\ k.name[1] \in seenEvents
       /\ k.name[1] \notin DOMAIN c_tag
       /\ k.name[1] \notin DOMAIN l_tag
       /\ k.content # None => nTO > 0

C12_TagShapeConsistency ==
    /\ event.event # None => C12_ShapeOK(event.event[1])
    /\ Returned => C12_ShapeOK(result[1].v.event)
    /\ event_kind # None => event_kind[1] \in DOMAIN c_tag \cap seenEvents

C12_Witness ==
    /\ Returned
    /\ seenEvents = {"list_created", "follow"}
    /\ result[1].v.event.variant = "ListCreated"
    /\ result[1].v.event.content = Some([type |-> "List", id |-> 1])

\* C13  Date failure is terminal: once a `created_at` key whose value the
\* datetime parser rejects has been processed, the call has failed with the
\* date error for that value and returns no record, whatever was processed
\* before (an earlier valid created_at included).
C13_DateFailureTerminal ==
    (lastCreatedAt # None /\ lastCreatedAt[1] \notin DOMAIN Instants)
    => /\ Failed
       /\ result[1].v = [kind |-> "custom", msg |-> <<"date", lastCreatedAt[1]>>]
       /\ completed = None

C13_Witness ==
    /\ Failed
    /\ lastCreatedAt = Some("2007-07-16")
    /\ event.created_at # None
    /\ result[1].v.msg = <<"date", "2007-07-16">>

\* C14  Last write wins: the created_at, target and source slots, and the
\* fields of a returned record, hold the decoded value of the last
\* `created_at`, `target` and `source` key processed by the key loop, and a
\* step for one of these keys changes no other slot and neither pending slot.
C14_SlotsHoldLast ==
    /\ (lastCreatedAt # None /\ lastCreatedAt[1] \in DOMAIN Instants)
          => event.created_at = Some(Instants[lastCreatedAt[1]])
    /\ (lastTarget # None /\ lastTarget[1].shape = "User")
          => event.target = Some([type |-> "User", id |-> lastTarget[1].id])
    /\ (lastSource # None /\ lastSource[1].shape = "User")
          => event.source = Some([type |-> "User", id |-> lastSource[1].id])
    /\ Returned => /\ result[1].v.created_at = Instants[lastCreatedAt[1]]
                   /\ result[1].v.target.id = lastTarget[1].id
                   /\ result[1].v.source.id = lastSource[1].id

C14_OwnSlotOnly ==
    /\ VisitCreatedAt => /\ event'.event = event.event /\ event'.target = event.target
                         /\ event'.source = event.source
                         /\ event_kind' = event_kind /\ target_obj' = target_obj
    /\ VisitTarget => /\ event'.event = event.event /\ event'.created_at = event.created_at
                      /\ event'.source = event.source
                      /\ event_kind' = event_kind /\ target_obj' = target_obj
    /\ VisitSource => /\ event'.event = event.event /\ event'.created_at = event.created_at
                      /\ event'.target = event.target
                      /\ event_kind' = event_kind /\ target_obj' = target_obj

C14_LastWriteWins == [](C14_SlotsHoldLast) /\ [][C14_OwnSlotOnly]_vars

C14_Witness ==
    /\ Returned
    /\ firstCreatedAt = Some("Mon Jul 16 12:59:01 +0000 2007")
    /\ lastCreatedAt = Some("Tue Jul 17 12:59:01 +0000 2007")
    /\ result[1].v.created_at = 1184677141

\* C15  Unknown keys are inert: a step of the key loop for a key other than
\* created_at, event, target_object, target, source leaves the four buffer
\* slots and both pending slots unchanged, does not end the call and leaves
\* the history of the five keys as it was, so the call goes on as if the key
\* were not there.
C15_UnknownKeysInert ==
    [][VisitOther => /\ UNCHANGED <<event, event_kind, target_obj>>
                     /\ pc' = "loop" /\ result' = None
                     /\ UNCHANGED <<nEvent, nTO, lastEvent, lastTO, lastCreatedAt,
                                    lastTarget, lastSource>>]_vars

\* two pairs consumed, one an `event` key and the other an unknown key: the
\* error is the one of the object without the unknown key
C15_Witness ==
    /\ Failed
    /\ a.pos = 2 /\ a.len = 2
    /\ nEvent = 1 /\ nTO = 0
    /\ lastCreatedAt = None /\ lastTarget = None /\ lastSource = None
    /\ result[1].v = [kind |-> "missing_field", msg |-> <<"created_at">>]

\* C16  Tag Table size: a discriminator the decoder has dispatched on is
\* looked up in a table of exactly 15 discriminators, exactly nine of them
\* container tags (the ones kept pending) and exactly six label tags.
C16_NineContainerTags ==
    lastEvent # None
    => /\ Cardinality(DOMAIN c_tag) = 9
       /\ Cardinality(DOMAIN l_tag) = 6
       /\ Cardinality(DOMAIN c_tag \cup DOMAIN l_tag) = 15
       /\ event_kind # None => event_kind[1] \in DOMAIN c_tag

\* C16 (amended)  The table recognises exactly 16 discriminators, exactly
\* ten of them container tags and exactly six label tags; an `event` key
\* alone keeps a container tag pending, resolves a label tag to its label
\* variant and resolves every other string to the custom variant.
C16_TenContainerTags ==
    LET containers == {"favorite", "unfavorite", "list_created", "list_destroyed",
                       "list_updated", "list_member_added", "list_member_removed",
                       "list_user_subscribed", "list_user_unsubscribed", "quoted_tweet"}
        labels == {"access_revoked", "block", "unblock", "follow", "unfollow",
                   "user_update"}
    IN  /\ Cardinality(DOMAIN c_tag) = 10
        /\ Cardinality(DOMAIN l_tag) = 6
        /\ Cardinality(DOMAIN c_tag \cup DOMAIN l_tag) = 16
        /\ \A e \in TagNames :
              (nEvent = 1 /\ nTO = 0 /\ lastEvent = Some(e))
              => /\ e \in containers => event_kind = Some(e) /\ event.event = None
                 /\ e \in labels => /\ event_kind = None
                                    /\ event.event # None
                                    /\ event.event[1].variant # "Custom"
                                    /\ event.event[1].content = None
                 /\ e \notin containers \cup labels
                       => /\ event_kind = None
                          /\ event.event = Some([variant |-> "Custom", name |-> Some(e),
                                                 content |-> None])

C16_Witness ==
    /\ pc = "loop"
    /\ nEvent = 1 /\ nTO = 0
    /\ lastEvent = Some("quoted_tweet")
    /\ event_kind = Some("quoted_tweet")

\* C17  Pending slots are consumed on resolution: a `target_object` step
\* taken while a discriminator is pending puts in the event slot the variant
\* of that discriminator carrying this value and empties the pending
\* discriminator; an `event` step taken while a payload is pending puts in
\* the event slot the variant of this discriminator made with that payload
\* and empties the pending payload; a `target_object` step taken with no
\* discriminator pending and the event slot resolved changes nothing.
C17_Resolved(e, t) ==
    IF e \in DOMAIN c_tag
    THEN [variant |-> c_tag[e].variant, name |-> None,
          content |-> Some([type |-> c_tag[e].Content, id |-> t.id])]
    ELSE IF e \in DOMAIN l_tag
    THEN [variant |-> l_tag[e], name |-> None, content |-> None]
    ELSE [variant |-> "Custom", name |-> Some(e), content |-> Some(t)]

C17_Step ==
    /\ (VisitTargetObject /\ event_kind # None)
       => IF pc' = "done"
          THEN ~Decodes(event_kind[1], lastTO'[1])
          ELSE /\ event'.event = Some(C17_Resolved(event_kind[1], lastTO'[1]))
               /\ event_kind' = None
               /\ target_obj' = target_obj
    /\ (VisitEvent /\ target_obj # None)
       => IF pc' = "done"
          THEN lastEvent'[1] \in DOMAIN c_tag /\ ~Decodes(lastEvent'[1], target_obj[1])
          ELSE /\ event'.event = Some(C17_Resolved(lastEvent'[1], target_obj[1]))
               /\ target_obj' = None
               /\ event_kind' = event_kind
    /\ (VisitTargetObject /\ event_kind = None /\ event.event # None)
       => UNCHANGED <<event, event_kind, target_obj>> /\ pc' = "loop"

C17_PendingConsumed == [][C17_Step]_vars

\* event:"favorite", target_object:{tweet}, target_object:{list}, in either
\* order of the first two: the second value is discarded
C17_Witness ==
    /\ pc = "loop"
    /\ nEvent = 1 /\ nTO = 2
    /\ lastEvent = Some("favorite")
    /\ lastTO = Some([shape |-> "List", id |-> 1])
    /\ event.event = Some(Container("favorite", [type |-> "Tweet", id |-> 1]))
    /\ event_kind = None /\ target_obj = None

\* C18  Once the event slot has been resolved it stays resolved for the rest
\* of the call: no step takes it from resolved to unresolved.
C18_StaysResolved == [][event.event # None => event'.event # None]_vars

\* C18 (amended)  The only step that takes the event slot from resolved to
\* unresolved is an `event` key carrying a container tag, processed while no
\* payload is pending: it leaves that tag pending and the slot empty.  No
\* other key resets the slot.
C18_OnlyContainerEventResets ==
    [][(event.event # None /\ event'.event = None)
        => /\ VisitEvent
           /\ lastEvent'[1] \in DOMAIN c_tag
           /\ target_obj = None
           /\ event_kind' = lastEvent']_vars

\* event:"follow" (resolved), event:"favorite" (reset), created_at, target,
\* source: the keys run out with the slot empty
C18_Witness ==
    /\ Failed /\ OthersFilled
    /\ nEvent = 2 /\ nTO = 0
    /\ "follow" \in seenEvents
    /\ lastEvent = Some("favorite")
    /\ event.event = None
    /\ result[1].v = [kind |-> "missing_field", msg |-> <<"target_object">>]

\* C19  When `event` keys were processed before completion, the event of the
\* returned record is the variant of the discriminator of the last of them.
C19_TagOf(k) ==
    IF k.variant = "Custom" THEN k.name[1]
    ELSE CHOOSE e \in DOMAIN c_tag \cup DOMAIN l_tag :
            \/ e \in DOMAIN c_tag /\ c_tag[e].variant = k.variant
            \/ e \in DOMAIN l_tag /\ l_tag[e] = k.variant

C19_LastEventDecides ==
    (Returned /\ nEvent >= 1) => C19_TagOf(result[1].v.event) = lastEvent[1]

\* C20  The pending discriminator and the pending payload are never both
\* set, and while a payload is pending the event slot is unresolved.
C20_PendingExclusive ==
    /\ ~(event_kind # None /\ target_obj # None)
    /\ target_obj # None => event.event = None

C20_Witness ==
    /\ pc = "loop"
    /\ nEvent = 0 /\ nTO = 2
    /\ target_obj = Some([shape |-> "Tweet", id |-> 1])
    /\ event_kind = None /\ event.event = None
    /\ event.created_at # None

\* C21  The unreachable!() arm is never reached: when the key loop ends
\* without an early return at least one of the four slots is empty and the
\* error names a field, the empty object included; and every call ends, with
\* a record or with an error.
C21_LoopEndsWithEmptySlot ==
    LET full == event.created_at # None /\ event.event # None
                /\ event.target # None /\ event.source # None
    IN  /\ pc = "loop" => ~full
        /\ (Failed /\ IsMissingField(result[1].v))
              => /\ ~full
                 /\ result[1].v.msg[1] # "unreachable"
                 /\ result[1].v.msg[1] \in
                       {"created_at", "target", "source", "event", "target_object"}
        /\ pc = "done" => Returned \/ Failed

C21_UnreachableNeverReached ==
    [](C21_LoopEndsWithEmptySlot) /\ <>(pc = "done")

\* the empty object: the loop ends at once
C21_Witness ==
    /\ Failed
    /\ a.len = 0
    /\ result[1].v = [kind |-> "missing_field", msg |-> <<"created_at">>]

====
